---- MODULE Spec2Model ----
(***************************************************************************)
(* Model of the recursive-descent JSON parser of src/src/lib.rs.           *)
(*                                                                         *)
(* A &str is a sequence of one-character strings.  A cursor is the         *)
(* remaining suffix of the input.  Every parser is an operator from a      *)
(* cursor to the pair [rest, val] the Rust function returns, val = None    *)
(* standing for Option::None.                                              *)
(*                                                                         *)
(* An i64 is the canonical decimal numeral of its value (a digit sequence  *)
(* without leading zeros), so that the 19-digit limit i64::MAX keeps its   *)
(* real width.  An f64 is the exact decimal [ip, fp] (integer-part         *)
(* numeral, fractional digits without trailing zeros): binary rounding is  *)
(* not modelled, decimal scaling is.                                       *)
(***************************************************************************)
EXTENDS Integers, Sequences, FiniteSets, TLC

VARIABLES doc, src, op, arg, rest, val, err

vars == <<doc, src, op, arg, rest, val, err>>

----------------------------------------------------------------------------
(* Characters and string helpers                                           *)

Digits == {"0", "1", "2", "3", "4", "5", "6", "7", "8", "9"}

DigitVal(c) ==
    CASE c = "0" -> 0 [] c = "1" -> 1 [] c = "2" -> 2 [] c = "3" -> 3
      [] c = "4" -> 4 [] c = "5" -> 5 [] c = "6" -> 6 [] c = "7" -> 7
      [] c = "8" -> 8 [] c = "9" -> 9

DigitChar(n) ==
    CASE n = 0 -> "0" [] n = 1 -> "1" [] n = 2 -> "2" [] n = 3 -> "3"
      [] n = 4 -> "4" [] n = 5 -> "5" [] n = 6 -> "6" [] n = 7 -> "7"
      [] n = 8 -> "8" [] n = 9 -> "9"

QUOTE == "\""

BACKSLASH == "\\"

NULL_LIT == <<"n", "u", "l", "l">>

TRUE_LIT == <<"t", "r", "u", "e">>

FALSE_LIT == <<"f", "a", "l", "s", "e">>

\* char::is_ascii_digit
is_ascii_digit(c) == c \in Digits

\* char::is_whitespace, on the whitespace characters the inputs use
is_whitespace(c) == c \in {" ", "\t", "\n", "\r"}

not_quote(c) == c # QUOTE

\* the call of a predicate `impl Fn(&char) -> bool`, named by pred
holds(pred, c) ==
    CASE pred = "is_ascii_digit" -> is_ascii_digit(c)
      [] pred = "is_whitespace"  -> is_whitespace(c)
      [] pred = "not_quote"      -> not_quote(c)

\* str::starts_with
starts_with(s, pat) ==
    /\ Len(s) >= Len(pat)
    /\ SubSeq(s, 1, Len(pat)) = pat

\* str::ends_with(char)
ends_with(s, c) == s # <<>> /\ s[Len(s)] = c

\* s[n..]
Drop(s, n) == SubSeq(s, n + 1, Len(s))

\* str::split_once(pat).unwrap().1 : what follows the first occurrence of pat
split_once_tail(s, pat) ==
    LET hits == {i \in 1..(Len(s) - Len(pat) + 1) :
                    SubSeq(s, i, i + Len(pat) - 1) = pat}
        first == CHOOSE i \in hits : \A j \in hits : i <= j
    IN  Drop(s, first + Len(pat) - 1)

\* str::trim_start_matches(pred): the number of leading characters dropped
LeadLen(s, pred) ==
    IF \A j \in 1..Len(s) : holds(pred, s[j])
    THEN Len(s)
    ELSE (CHOOSE i \in 1..Len(s) :
              ~holds(pred, s[i]) /\ \A j \in 1..(i - 1) : holds(pred, s[j])) - 1

\* the number of trailing whitespace characters (str::trim_end)
TrailLen(s) ==
    IF \A j \in 1..Len(s) : is_whitespace(s[j])
    THEN Len(s)
    ELSE Len(s) - (CHOOSE i \in 1..Len(s) :
              ~is_whitespace(s[i]) /\ \A j \in (i + 1)..Len(s) : is_whitespace(s[j]))

\* str::trim
trim(s) ==
    LET a == LeadLen(s, "is_whitespace")
        t == Drop(s, a)
    IN  SubSeq(t, 1, Len(t) - TrailLen(t))

----------------------------------------------------------------------------
(* JsonValue and Option                                                    *)

None == [kind |-> "None"]

SomeChar(c) == [kind |-> "Char", c |-> c]

SomeSeq(s) == [kind |-> "Seq", s |-> s]

Null == [kind |-> "Null"]

Bool(b) == [kind |-> "Bool", b |-> b]

Integer(n) == [kind |-> "Integer", i |-> n]

Float(ip, fp) == [kind |-> "Float", ip |-> ip, fp |-> fp]

String(s) == [kind |-> "String", s |-> s]

Array(a) == [kind |-> "Array", a |-> a]

Object(o) == [kind |-> "Object", o |-> o]

----------------------------------------------------------------------------
(* i64 and f64 arithmetic on decimal numerals                              *)

\* i64::MAX = 9223372036854775807
I64_MAX == <<"9", "2", "2", "3", "3", "7", "2", "0", "3", "6",
             "8", "5", "4", "7", "7", "5", "8", "0", "7">>

\* the numeral without its leading zeros ("0" for an all-zero run)
Canon(ds) ==
    LET nz == {i \in 1..Len(ds) : ds[i] # "0"}
    IN  IF nz = {} THEN <<"0">>
        ELSE Drop(ds, (CHOOSE i \in nz : \A j \in nz : i <= j) - 1)

\* a <= b for canonical numerals
NumLeq(a, b) ==
    \/ Len(a) < Len(b)
    \/ /\ Len(a) = Len(b)
       /\ \/ a = b
          \/ \E i \in 1..Len(a) :
                /\ DigitVal(a[i]) < DigitVal(b[i])
                /\ \A j \in 1..(i - 1) : a[j] = b[j]

\* <str>::parse::<i64>() on a non-empty run of ASCII digits: Ok(value), or
\* Err (None) when the value exceeds i64::MAX
parse_i64(ds) ==
    IF NumLeq(Canon(ds), I64_MAX) THEN Integer(Canon(ds)) ELSE None

\* n + 1 on a canonical numeral
NumSucc(n) ==
    LET nines == Len(n) - (IF \A j \in 1..Len(n) : n[j] = "9" THEN 0
                           ELSE CHOOSE i \in 1..Len(n) :
                                  n[i] # "9" /\ \A j \in (i + 1)..Len(n) : n[j] = "9")
        keep  == Len(n) - nines
    IN  IF keep = 0
        THEN <<"1">> \o [j \in 1..Len(n) |-> "0"]
        ELSE SubSeq(n, 1, keep - 1)
               \o <<DigitChar(DigitVal(n[keep]) + 1)>>
               \o [j \in 1..nines |-> "0"]

\* the fractional digits without trailing zeros
StripZeros(fp) ==
    LET nz == {i \in 1..Len(fp) : fp[i] # "0"}
    IN  IF nz = {} THEN <<>>
        ELSE SubSeq(fp, 1, CHOOSE i \in nz : \A j \in nz : j <= i)

\* `value as f64`
as_f64(n) == [ip |-> n, fp |-> <<>>]

\* 1.0 < x
gt_one(x) ==
    \/ ~NumLeq(x.ip, <<"1">>)
    \/ x.ip = <<"1">> /\ x.fp # <<>>

\* x / 10.0 : the decimal point moves one place to the left
div10(x) ==
    [ip |-> IF Len(x.ip) = 1 THEN <<"0">> ELSE SubSeq(x.ip, 1, Len(x.ip) - 1),
     fp |-> StripZeros(<<x.ip[Len(x.ip)]>> \o x.fp)]

\* while 1.0 < frac_part { frac_part /= 10.0 }
RECURSIVE normalize(_)
normalize(x) == IF gt_one(x) THEN normalize(div10(x)) ELSE x

\* whole as f64 + frac_part, where 0 <= frac_part <= 1
add_frac(whole, x) ==
    IF x.ip = <<"1">> THEN Float(NumSucc(whole), <<>>) ELSE Float(whole, x.fp)

----------------------------------------------------------------------------
(* Lexical primitives                                                      *)

parse_char(s, value) ==
    IF s # <<>> /\ s[1] = value
    THEN [rest |-> split_once_tail(s, <<value>>), val |-> SomeChar(value)]
    ELSE [rest |-> s, val |-> None]

parse_sequence(s, seq) ==
    IF starts_with(s, seq)
    THEN [rest |-> split_once_tail(s, seq), val |-> SomeSeq(seq)]
    ELSE [rest |-> s, val |-> None]

\* returns (trimmed, the leading span)
parse_span(s, pred) ==
    LET n == LeadLen(s, pred)
    IN  [rest |-> Drop(s, n), span |-> SubSeq(s, 1, n)]

parse_whitespaces(s) == parse_span(s, "is_whitespace")

----------------------------------------------------------------------------
(* Scalar parsers                                                          *)

\* parse_null that yields Null and leaves the cursor where it was
parse_null_stay(s) ==
    [rest |-> s, val |-> IF parse_sequence(s, NULL_LIT).val = None THEN None ELSE Null]

parse_null(s) ==
    LET r == parse_sequence(s, NULL_LIT)
    IN  [rest |-> r.rest, val |-> IF r.val = None THEN None ELSE Null]

parse_bool(s) ==
    LET t == parse_sequence(s, TRUE_LIT)
        f == parse_sequence(s, FALSE_LIT)
    IN  IF t.val # None THEN [rest |-> t.rest, val |-> Bool(TRUE)]
        ELSE IF f.val # None THEN [rest |-> f.rest, val |-> Bool(FALSE)]
        ELSE [rest |-> s, val |-> None]

\* `src` is rebound to the cursor after the digit run before either return
parse_integer(s) ==
    LET sp == parse_span(s, "is_ascii_digit")
    IN  IF sp.span = <<>>
        THEN [rest |-> sp.rest, val |-> None]
        ELSE [rest |-> sp.rest, val |-> parse_i64(sp.span)]

parse_float(s) ==
    LET w         == parse_integer(s)
        has_whole == w.val # None
        whole     == IF has_whole THEN w.val.i ELSE <<"0">>
        p         == parse_char(w.rest, ".")
        f         == parse_integer(p.rest)
        has_frac  == f.val # None
        frac      == IF has_frac THEN f.val.i ELSE <<"0">>
        frac_part == normalize(as_f64(frac))
    IN  IF p.val = None THEN [rest |-> s, val |-> None]
        ELSE IF ~has_whole /\ ~has_frac THEN [rest |-> s, val |-> None]
        ELSE [rest |-> f.rest, val |-> add_frac(whole, frac_part)]

----------------------------------------------------------------------------
(* String parser                                                           *)

\* string_iter that decodes the escape: the backslash is dropped
string_iter_unescape(cur, string) ==
    LET q == parse_char(cur, QUOTE)
        t == parse_span(q.rest, "not_quote")
    IN  IF q.val = None
        THEN [ok |-> FALSE, rest |-> cur, string |-> string]
        ELSE [ok |-> TRUE, rest |-> t.rest,
              string |-> SubSeq(string, 1, Len(string) - 1) \o <<QUOTE>> \o t.span]

\* one pass of `while string.ends_with('\\')`: the quote, then the tail.
\* The new slice starts at string's first byte and is string.len() +
\* tail.len() + 1 long; the three pieces are adjacent in the input.
string_iter(cur, string) ==
    LET q == parse_char(cur, QUOTE)
        t == parse_span(q.rest, "not_quote")
    IN  IF q.val = None
        THEN [ok |-> FALSE, rest |-> cur, string |-> string]
        ELSE [ok |-> TRUE, rest |-> t.rest,
              string |-> string \o <<QUOTE>> \o t.span]

RECURSIVE string_loop(_, _)
string_loop(cur, string) ==
    IF ends_with(string, BACKSLASH)
    THEN LET it == string_iter(cur, string)
         IN  IF it.ok THEN string_loop(it.rest, it.string) ELSE it
    ELSE [ok |-> TRUE, rest |-> cur, string |-> string]

parse_string(s) ==
    LET o  == parse_char(s, QUOTE)
        sp == parse_span(o.rest, "not_quote")
        lp == string_loop(sp.rest, sp.span)
        c  == parse_char(lp.rest, QUOTE)
    IN  IF o.val = None THEN [rest |-> s, val |-> None]
        ELSE IF ~lp.ok THEN [rest |-> s, val |-> None]
        ELSE IF c.val = None THEN [rest |-> s, val |-> None]
        ELSE [rest |-> c.rest, val |-> String(lp.string)]

----------------------------------------------------------------------------
(* Composite parsers and the dispatcher.  Each function is cut at the      *)
(* points where it binds a result it reads more than once; the pieces pass *)
(* the bound results on as parameters.                                     *)

RECURSIVE parse_value(_), parse_try(_, _), apply(_, _)
RECURSIVE parse_array(_), array_loop(_, _)
RECURSIVE parse_object(_), object_loop(_, _)

\* the cursor after parse_whitespaces
skip_ws(s) == parse_whitespaces(s).rest

\* an insert that keeps the entry a key already has
insert_keep_first(m, k, v) ==
    [x \in (DOMAIN m) \cup {k} |-> IF x \in DOMAIN m THEN m[x] ELSE v]

\* HashMap::insert
insert(m, k, v) == [x \in (DOMAIN m) \cup {k} |-> IF x = k THEN v ELSE m[x]]

\* parse_array: after a value, the optional comma.  `stop` is a break,
\* otherwise the loop goes round again from `rest`
array_comma(value, c) ==
    IF c.val = None
    THEN [stop |-> TRUE, rest |-> c.rest, val |-> value]
    ELSE [stop |-> FALSE, rest |-> skip_ws(c.rest), val |-> value]

\* parse_array: `match value { None => break, Some(value) => values.push(value) }`
array_step(v) ==
    IF v.val = None
    THEN [stop |-> TRUE, rest |-> v.rest, val |-> None]
    ELSE array_comma(v.val, parse_char(skip_ws(v.rest), ","))

\* one pass of the element loop of parse_array
array_iter(cur) == array_step(parse_value(cur))

array_next(it, values) ==
    IF it.stop THEN [rest |-> it.rest, values |-> values]
    ELSE array_loop(it.rest, values)

\* a push at the front of the vector
array_push_front(it, values) ==
    array_next(it, IF it.val = None THEN values ELSE <<it.val>> \o values)

array_push(it, values) ==
    array_next(it, IF it.val = None THEN values ELSE Append(values, it.val))

array_loop(cur, values) == array_push(array_iter(cur), values)

\* a parse_array that returns the elements read so far when `]` is missing
array_close_partial(s, values, c) == [rest |-> c.rest, val |-> Array(values)]

\* parse_array: the closing bracket
array_close(s, values, c) ==
    IF c.val = None THEN [rest |-> s, val |-> None]
    ELSE [rest |-> c.rest, val |-> Array(values)]

array_end(s, lp) == array_close(s, lp.values, parse_char(skip_ws(lp.rest), "]"))

array_open(s, o) ==
    IF o.val = None THEN [rest |-> s, val |-> None]
    ELSE array_end(s, array_loop(parse_span(o.rest, "is_whitespace").rest, <<>>))

parse_array(s) == array_open(s, parse_char(s, "["))

\* parse_object: after a field, the optional comma.  `fail` is a return of
\* (src, None), `stop` a break
object_comma(key, value, m) ==
    [fail |-> FALSE, stop |-> m.val = None,
     rest |-> IF m.val = None THEN m.rest ELSE skip_ws(m.rest),
     key |-> key, val |-> value]

\* parse_object: `let Some(value) = value else { return (src, None) }`
object_value(key, v) ==
    IF v.val = None
    THEN [fail |-> TRUE, stop |-> TRUE, rest |-> v.rest, key |-> None, val |-> None]
    ELSE object_comma(key, v.val, parse_char(skip_ws(v.rest), ","))

\* parse_object: `if colon.is_none() { return (src, None) }`
object_colon(key, c) ==
    IF c.val = None
    THEN [fail |-> TRUE, stop |-> TRUE, rest |-> c.rest, key |-> None, val |-> None]
    ELSE object_value(key, parse_value(skip_ws(c.rest)))

\* parse_object: `let Some(JsonValue::String(key)) = key else { break }`
object_key(k) ==
    IF k.val = None
    THEN [fail |-> FALSE, stop |-> TRUE, rest |-> k.rest, key |-> None, val |-> None]
    ELSE object_colon(k.val.s, parse_char(skip_ws(k.rest), ":"))

\* one pass of the field loop of parse_object
object_iter(cur) == object_key(parse_string(cur))

object_next(it, values) ==
    IF it.fail THEN [ok |-> FALSE, rest |-> it.rest, values |-> values]
    ELSE IF it.stop THEN [ok |-> TRUE, rest |-> it.rest, values |-> values]
    ELSE object_loop(it.rest, values)

object_insert(it, values) ==
    object_next(it, IF it.val = None THEN values ELSE insert(values, it.key, it.val))

object_loop(cur, values) == object_insert(object_iter(cur), values)

\* parse_object: the closing brace
object_close(s, values, c) ==
    IF c.val = None THEN [rest |-> s, val |-> None]
    ELSE [rest |-> c.rest, val |-> Object(values)]

object_end(s, lp) ==
    IF ~lp.ok THEN [rest |-> s, val |-> None]
    ELSE object_close(s, lp.values, parse_char(skip_ws(lp.rest), "}"))

object_open(s, o) ==
    IF o.val = None THEN [rest |-> s, val |-> None]
    ELSE object_end(s, object_loop(parse_span(o.rest, "is_whitespace").rest, <<>>))

parse_object(s) == object_open(s, parse_char(s, "{"))

\* the call through a `fn(&str) -> (&str, Option<JsonValue>)` item
apply(parse, s) ==
    CASE parse = "parse_null"    -> parse_null(s)
      [] parse = "parse_bool"    -> parse_bool(s)
      [] parse = "parse_float"   -> parse_float(s)
      [] parse = "parse_integer" -> parse_integer(s)
      [] parse = "parse_string"  -> parse_string(s)
      [] parse = "parse_array"   -> parse_array(s)
      [] parse = "parse_object"  -> parse_object(s)

\* parse_try: `if let Some(value) = value { return (src, Some(value)) }`, and
\* the next pass starts from the cursor this parser returned
try_next(r, parsers) ==
    IF r.val # None \/ parsers = <<>> THEN r
    ELSE parse_try(r.rest, parsers)

\* `(src, value) = parse(src)` rebinds src on every pass, also on a miss
parse_try(s, parsers) ==
    IF parsers = <<>> THEN [rest |-> s, val |-> None]
    ELSE try_next(apply(Head(parsers), s), Tail(parsers))

ValueParsers ==
    <<"parse_null", "parse_bool", "parse_float", "parse_integer",
      "parse_string", "parse_array", "parse_object">>

parse_value(s) == parse_try(s, ValueParsers)

----------------------------------------------------------------------------
(* Top-level entry point                                                   *)

\* a from_str without the check for unconsumed input
from_result_lenient(r) ==
    IF r.val = None
    THEN [rest |-> r.rest, val |-> None, err |-> "NoMatch"]
    ELSE [rest |-> r.rest, val |-> r.val, err |-> "Ok"]

\* Ok(value) is err = "Ok"; the two Err strings are told apart by err, with
\* rest the text quoted in the message
from_result(r) ==
    IF r.val = None
    THEN [rest |-> r.rest, val |-> None, err |-> "NoMatch"]
    ELSE IF r.rest # <<>>
    THEN [rest |-> r.rest, val |-> None, err |-> "TrailingInput"]
    ELSE [rest |-> r.rest, val |-> r.val, err |-> "Ok"]

from_str(s) == from_result(parse_value(trim(s)))

----------------------------------------------------------------------------
(* Inputs: the texts the operations are applied to                         *)

MaxToks == 3

MaxDigits == 2

MaxStrLen == 5

MaxElems == 2

MaxFields == 2

MaxWs == 1

\* the smallest digit run that does not fit an i64: i64::MAX + 1
BIG == <<"9", "2", "2", "3", "3", "7", "2", "0", "3", "6",
         "8", "5", "4", "7", "7", "5", "8", "0", "8">>

STR_A == <<QUOTE, "a", QUOTE>>

Spaces(n) == [j \in 1..n |-> " "]

\* all sequences over S of length at most n
SeqsUpTo(S, n) == UNION {[1..k -> S] : k \in 0..n}

RECURSIVE Concat(_)
Concat(ss) == IF ss = <<>> THEN <<>> ELSE Head(ss) \o Concat(Tail(ss))

Atoms ==
    {NULL_LIT, <<"1">>, BIG, <<".">>, STR_A,
     <<"[">>, <<"]">>, <<"{">>, <<",">>, <<" ">>}

DigitRuns ==
    SeqsUpTo({"0", "1", "5"}, MaxDigits) \cup {I64_MAX, BIG, <<"0">> \o BIG}

StrTexts == SeqsUpTo({QUOTE, BACKSLASH, "a"}, MaxStrLen)

\* element texts: values, a digit run that overflows, and composites that
\* are cut short
ElemTexts ==
    {<<"1">>, <<"2">>, NULL_LIT, STR_A, <<"[", "]">>, <<"1", ".", "5">>, BIG,
     <<"[", "1">>, <<"{">> \o STR_A}

Keys == {<<"a">>, <<"b">>}

FieldVals == {TRUE_LIT, <<"[", "]">>, <<>>}

\* a field is <<key, separator, value text>>
Fields ==
    {<<k, <<":">>, v>> : k \in Keys, v \in FieldVals} \cup {<<<<"a">>, <<>>, <<"1">>>>}

KEY == <<"k", "e", "y">>

KEY341 == <<"k", "e", "y", "3", "4", "1">>

\* 1324.34576, the input of test_parse_float
FLOAT_TEXT == <<"1", "3", "2", "4", ".", "3", "4", "5", "7", "6">>

\* {   "key"  :     true,  "key341": null  ,   "true" : 234  }, the input
\* of test_parse_object
OBJECT_TEXT ==
    <<"{">> \o Spaces(3) \o <<QUOTE>> \o KEY \o <<QUOTE>> \o Spaces(2) \o <<":">>
      \o Spaces(5) \o TRUE_LIT \o <<",">> \o Spaces(2)
      \o <<QUOTE>> \o KEY341 \o <<QUOTE, ":", " ">> \o NULL_LIT \o Spaces(2)
      \o <<",">> \o Spaces(3) \o <<QUOTE>> \o TRUE_LIT \o <<QUOTE>>
      \o <<" ", ":", " ", "2", "3", "4">> \o Spaces(2) \o <<"}">>

ARRAY_TEXT == <<"[", "1", ",", " ", "2", ",", " ", "3", "]">>

TRAILING_TEXT == TRUE_LIT \o <<" ">> \o FALSE_LIT

\* [{"a": 1, "b": "a"}, {"a": 2}], an array of objects as in test_print_ages
OBJECTS_TEXT ==
    <<"[", "{">> \o STR_A \o <<":", " ", "1", ",", " ", QUOTE, "b", QUOTE, ":", " ">>
      \o STR_A \o <<"}", ",", " ", "{">> \o STR_A \o <<":", " ", "2", "}", "]">>

\* the inputs of the repository's tests and of the specification's examples
Literals ==
    { FLOAT_TEXT, OBJECT_TEXT, ARRAY_TEXT, TRAILING_TEXT, OBJECTS_TEXT,
      <<"3", ".", "5">>,
      <<"[", ",", "]">>,
      <<"{">>,
      <<" ", "[">> \o STR_A \o <<",", "[", "{">> \o STR_A \o <<":", "1", "]", "]">>,
      <<"{">> \o STR_A \o <<":", "{">> \o STR_A \o <<":", "[", "}", "}", " ">> }

Doc(fam, parts, ws, trail, close) ==
    [fam |-> fam, parts |-> parts, ws |-> ws, trail |-> trail, close |-> close]

Docs ==
    {Doc("tokens", ps, 0, FALSE, TRUE) : ps \in SeqsUpTo(Atoms, MaxToks)}
    \cup {Doc("number", <<w, p, f>>, 0, FALSE, TRUE) :
            w \in DigitRuns, p \in {<<".">>, <<>>}, f \in DigitRuns}
    \cup {Doc("string", <<t>>, 0, FALSE, TRUE) : t \in StrTexts}
    \cup {Doc("literal", <<t>>, 0, FALSE, TRUE) : t \in Literals}
    \cup {Doc("array", es, ws, tr, cl) :
            es \in SeqsUpTo(ElemTexts, MaxElems), ws \in 0..MaxWs,
            tr \in BOOLEAN, cl \in BOOLEAN}
    \cup {Doc("object", fs, ws, tr, cl) :
            fs \in SeqsUpTo(Fields, MaxFields), ws \in 0..MaxWs,
            tr \in BOOLEAN, cl \in BOOLEAN}

\* items separated by commas, every token padded with ws spaces
RECURSIVE Join(_, _)
Join(items, ws) ==
    IF items = <<>> THEN <<>>
    ELSE IF Len(items) = 1 THEN Head(items) \o Spaces(ws)
    ELSE Head(items) \o Spaces(ws) \o <<",">> \o Spaces(ws) \o Join(Tail(items), ws)

FieldText(f, ws) ==
    <<QUOTE>> \o f[1] \o <<QUOTE>> \o Spaces(ws) \o f[2] \o Spaces(ws) \o f[3]

Render(d) ==
    LET items == IF d.fam = "object"
                 THEN [j \in 1..Len(d.parts) |-> FieldText(d.parts[j], d.ws)]
                 ELSE d.parts
        body  == Join(items, d.ws)
                   \o (IF d.trail THEN <<",">> \o Spaces(d.ws) ELSE <<>>)
    IN  CASE d.fam = "array"  ->
               <<"[">> \o Spaces(d.ws) \o body \o (IF d.close THEN <<"]">> ELSE <<>>)
          [] d.fam = "object" ->
               <<"{">> \o Spaces(d.ws) \o body \o (IF d.close THEN <<"}">> ELSE <<>>)
          [] OTHER -> Concat(d.parts)

----------------------------------------------------------------------------
(* The state machine: an input is chosen, then one operation is applied    *)

CharArgs == {"[", QUOTE}

SeqArgs == {NULL_LIT}

Init ==
    /\ doc \in Docs
    /\ src = Render(doc)
    /\ op = "input"
    /\ arg = <<>>
    /\ rest = <<>>
    /\ val = None
    /\ err = ""

Return(name, a, r, e) ==
    /\ op = "input"
    /\ op' = name
    /\ arg' = a
    /\ rest' = r.rest
    /\ val' = r.val
    /\ err' = e
    /\ UNCHANGED <<doc, src>>

ParseChar == \E c \in CharArgs : Return("parse_char", <<c>>, parse_char(src, c), "")

ParseSequence == \E q \in SeqArgs : Return("parse_sequence", q, parse_sequence(src, q), "")

ParseWhitespaces ==
    LET r == parse_whitespaces(src)
    IN  Return("parse_whitespaces", <<>>, [rest |-> r.rest, val |-> SomeSeq(r.span)], "")

ParseNull == Return("parse_null", <<>>, parse_null(src), "")

ParseBool == Return("parse_bool", <<>>, parse_bool(src), "")

ParseInteger == Return("parse_integer", <<>>, parse_integer(src), "")

ParseFloat == Return("parse_float", <<>>, parse_float(src), "")

ParseString == Return("parse_string", <<>>, parse_string(src), "")

ParseArray == Return("parse_array", <<>>, parse_array(src), "")

ParseObject == Return("parse_object", <<>>, parse_object(src), "")

ParseValue == Return("parse_value", <<>>, parse_value(src), "")

FromStr == Return("from_str", <<>>, from_str(src), from_str(src).err)

Next ==
    \/ ParseChar
    \/ ParseSequence
    \/ ParseWhitespaces
    \/ ParseNull
    \/ ParseBool
    \/ ParseInteger
    \/ ParseFloat
    \/ ParseString
    \/ ParseArray
    \/ ParseObject
    \/ ParseValue
    \/ FromStr

Spec == Init /\ [][Next]_vars

----------------------------------------------------------------------------
(* Vocabulary of the properties                                            *)

ParserOps ==
    {"parse_char", "parse_sequence", "parse_null", "parse_bool", "parse_integer",
     "parse_float", "parse_string", "parse_array", "parse_object", "parse_value"}

IsSuffix(t, s) == Len(t) <= Len(s) /\ t = Drop(s, Len(s) - Len(t))

\* the text between the first and the last non-whitespace character
Trimmed(s) ==
    LET nw == {i \in 1..Len(s) : ~is_whitespace(s[i])}
    IN  IF nw = {} THEN <<>>
        ELSE SubSeq(s, CHOOSE i \in nw : \A j \in nw : i <= j,
                       CHOOSE i \in nw : \A j \in nw : j <= i)

\* the positions of s that lie outside every string: a quote opens a string,
\* the next quote that does not follow a backslash closes it
RECURSIVE Outside(_, _, _)
Outside(s, i, inside) ==
    IF i > Len(s) THEN {}
    ELSE IF s[i] = QUOTE
    THEN IF inside /\ s[i - 1] = BACKSLASH
         THEN Outside(s, i + 1, TRUE)
         ELSE Outside(s, i + 1, ~inside)
    ELSE (IF inside THEN {} ELSE {i}) \cup Outside(s, i + 1, inside)

\* the maximal runs of ASCII digits of s outside strings, as <<first, last>>
DigitRunsOf(s) ==
    LET out == Outside(s, 1, FALSE)
        dig(i) == i \in out /\ s[i] \in Digits
    IN  {ab \in (1..Len(s)) \X (1..Len(s)) :
            /\ ab[1] <= ab[2]
            /\ \A i \in ab[1]..ab[2] : dig(i)
            /\ (ab[1] = 1 \/ ~dig(ab[1] - 1))
            /\ (ab[2] = Len(s) \/ ~dig(ab[2] + 1))}

FitsI64(ds) == NumLeq(Canon(ds), I64_MAX)

HasOverflowRun(s) ==
    \E ab \in DigitRunsOf(s) : ~FitsI64(SubSeq(s, ab[1], ab[2]))

\* the value a value text denotes
ExpectedVal(t) ==
    CASE t = <<"1">>           -> Integer(<<"1">>)
      [] t = <<"2">>           -> Integer(<<"2">>)
      [] t = NULL_LIT          -> Null
      [] t = TRUE_LIT          -> Bool(TRUE)
      [] t = STR_A             -> String(<<"a">>)
      [] t = <<"[", "]">>      -> Array(<<>>)
      [] t = <<"1", ".", "5">> -> Float(<<"1">>, <<"5">>)
      [] OTHER                 -> None

IsValueText(t) == ExpectedVal(t) # None

----------------------------------------------------------------------------
(* C1 - C4: what the code does with digit runs                             *)

\* C1: a parser that yields no value returns the cursor it was given: for
\* every parser among parse_char ... parse_value and every input, val = None
\* implies rest = src, also when a digit run does not fit i64.
C1_FailureRestoresCursor ==
    (op \in ParserOps /\ val = None) => rest = src

\* the first of the seven parsers that yields a value on s itself
FirstOnSame(s) ==
    LET hits == {i \in 1..Len(ValueParsers) : apply(ValueParsers[i], s).val # None}
    IN  IF hits = {} THEN [rest |-> s, val |-> None]
        ELSE apply(ValueParsers[CHOOSE i \in hits : \A j \in hits : i <= j], s)

\* C2: parse_value(S) is the result of the first of null, boolean, float,
\* integer, string, array, object that yields a value on S itself, and no
\* value exactly when none of the seven yields one on S; "3.5" is the Float
\* 3.5 with nothing left over.
C2_FirstSuccessOnSameInput ==
    op = "parse_value" =>
        /\ val = FirstOnSame(src).val
        /\ val # None => rest = FirstOnSame(src).rest
        /\ src = <<"3", ".", "5">> => val = Float(<<"3">>, <<"5">>) /\ rest = <<>>

\* C3: an input with a maximal digit run outside strings that does not fit
\* i64 is never parsed to Ok: from_str returns an error.
C3_OverflowIsError ==
    (op = "from_str" /\ HasOverflowRun(src)) => err # "Ok"

\* s is W '.' F with W and F digit runs, not both empty
IsDecimalText(s) ==
    /\ Len(s) >= 2
    /\ Cardinality({i \in 1..Len(s) : s[i] = "."}) = 1
    /\ \A i \in 1..Len(s) : s[i] = "." \/ s[i] \in Digits

PointOf(s) == CHOOSE i \in 1..Len(s) : s[i] = "."

WholeOf(s) == SubSeq(s, 1, PointOf(s) - 1)

FracOf(s) == Drop(s, PointOf(s))

\* W + F / 10^(number of digits of F), an absent part counting as 0
DecimalValue(w, f) == Float(Canon(w), StripZeros(f))

\* C4: on W '.' F with both parts fitting i64, parse_float yields the Float
\* W + F / 10^(digits of F), so the decimal text of the result has the digits
\* of the input, as for 1324.34576, 1.05 and 1.1.
C4_FloatIsWholePlusScaledFrac ==
    (/\ op = "parse_float"
     /\ IsDecimalText(src)
     /\ FitsI64(WholeOf(src))
     /\ FitsI64(FracOf(src)))
    => (val = DecimalValue(WholeOf(src), FracOf(src)) /\ rest = <<>>)

----------------------------------------------------------------------------
(* C5: the entry point                                                     *)

\* C5: from_str(S) is Ok(v) exactly when parse_value on S without its leading
\* and trailing whitespace yields v and leaves nothing; a value with input
\* left over is the TrailingInput error quoting that remainder, never the
\* value; for "true false" the remainder quoted is " false".
C5_FromStrIffFullParse ==
    op = "from_str" =>
        LET r == parse_value(Trimmed(src))
        IN  /\ (err = "Ok") <=> (r.val # None /\ r.rest = <<>>)
            /\ err = "Ok" => val = r.val
            /\ (r.val # None /\ r.rest # <<>>) =>
                   (err = "TrailingInput" /\ rest = r.rest /\ val = None)
            /\ src = TRAILING_TEXT =>
                   (err = "TrailingInput" /\ rest = <<" ">> \o FALSE_LIT)

C5_Witness ==
    /\ op = "from_str"
    /\ src = TRAILING_TEXT
    /\ err = "TrailingInput"
    /\ val = None

----------------------------------------------------------------------------
(* C6, C7: objects and arrays                                              *)

WellFormedFields(fs) ==
    \A i \in 1..Len(fs) : fs[i][2] = <<":">> /\ IsValueText(fs[i][3])

KeysOf(fs) == {fs[i][1] : i \in 1..Len(fs)}

LastWith(fs, k) ==
    CHOOSE i \in 1..Len(fs) :
        fs[i][1] = k /\ \A j \in 1..Len(fs) : fs[j][1] = k => j <= i

ExpectedObject(fs) == [k \in KeysOf(fs) |-> ExpectedVal(fs[LastWith(fs, k)][3])]

\* C6: on '{' k1 ':' v1 ',' ... ',' kn ':' vn '}' with any whitespace around
\* the tokens, parse_object yields the Object whose keys are the distinct
\* keys, each mapped to the value of the last field with that key, with as
\* many entries as distinct keys; the result does not depend on the
\* whitespace.  The object of test_parse_object has its three entries.
C6_ObjectLastWriteWins ==
    /\ (/\ op = "parse_object"
        /\ doc.fam = "object"
        /\ doc.close
        /\ ~doc.trail
        /\ WellFormedFields(doc.parts))
       => /\ val = Object(ExpectedObject(doc.parts))
          /\ Cardinality(DOMAIN val.o) = Cardinality(KeysOf(doc.parts))
          /\ rest = <<>>
    /\ (op = "parse_object" /\ src = OBJECT_TEXT)
       => /\ val.kind = "Object"
          /\ DOMAIN val.o = {KEY, KEY341, TRUE_LIT}
          /\ val.o[KEY] = Bool(TRUE)
          /\ val.o[KEY341] = Null
          /\ val.o[TRUE_LIT] = Integer(<<"2", "3", "4">>)
          /\ rest = <<>>

C6_Witness ==
    /\ op = "parse_object"
    /\ doc.fam = "object"
    /\ doc.close /\ ~doc.trail /\ doc.ws = 1
    /\ WellFormedFields(doc.parts)
    /\ Len(doc.parts) = 2
    /\ doc.parts[1][1] = doc.parts[2][1]
    /\ doc.parts[1][3] # doc.parts[2][3]
    /\ val.kind = "Object"
    /\ val.o[doc.parts[1][1]] = ExpectedVal(doc.parts[2][3])

ExpectedArray(es) == [i \in 1..Len(es) |-> ExpectedVal(es[i])]

\* C7: on '[' e1 ',' ... ',' en ']' with optional whitespace, parse_array
\* yields the Array of the n values in source order; "[]" is the empty
\* Array; one trailing comma after at least one element gives the same
\* Array; "[,]" fails.  "[1, 2, 3]" is Array([1, 2, 3]).
C7_ArrayElementsInOrder ==
    /\ (/\ op = "parse_array"
        /\ doc.fam = "array"
        /\ doc.close
        /\ \A i \in 1..Len(doc.parts) : IsValueText(doc.parts[i]))
       => IF doc.trail /\ doc.parts = <<>>
          THEN val = None /\ rest = src
          ELSE /\ val = Array(ExpectedArray(doc.parts))
               /\ Len(val.a) = Len(doc.parts)
               /\ rest = <<>>
    /\ (op = "parse_array" /\ src = ARRAY_TEXT)
       => /\ val = Array(<<Integer(<<"1">>), Integer(<<"2">>), Integer(<<"3">>)>>)
          /\ rest = <<>>

C7_Witness ==
    /\ op = "parse_array"
    /\ doc.fam = "array"
    /\ doc.close /\ doc.trail /\ doc.ws = 1
    /\ Len(doc.parts) = 2
    /\ IsValueText(doc.parts[1]) /\ IsValueText(doc.parts[2])
    /\ doc.parts[1] # doc.parts[2]
    /\ val.kind = "Array"
    /\ Len(val.a) = 2

----------------------------------------------------------------------------
(* C8: hard failure                                                        *)

\* brackets opened minus brackets closed outside strings in s[1..i]
Depth(s, i) ==
    LET out == Outside(s, 1, FALSE)
    IN  Cardinality({j \in 1..i : j \in out /\ s[j] \in {"[", "{"}})
          - Cardinality({j \in 1..i : j \in out /\ s[j] \in {"]", "}"}})

\* the composites that start inside the outermost one: an opening bracket
\* outside strings, before the outermost composite is closed
NestedOpenings(s) ==
    {i \in (2..Len(s)) \cap Outside(s, 1, FALSE) :
        /\ s[i] \in {"[", "{"}
        /\ \A j \in 1..(i - 1) : Depth(s, j) >= 1}

CompositeFails(s) ==
    IF Head(s) = "[" THEN parse_array(s).val = None ELSE parse_object(s).val = None

NestedFails(s) == \E i \in NestedOpenings(s) : CompositeFails(Drop(s, i - 1))

\* C8: when the trimmed input starts with '{' or '[' and that composite, or a
\* composite nested in it at any depth, fails, from_str returns the NoMatch
\* error quoting the whole trimmed input, and no value.
C8_HardFailurePropagates ==
    LET t == Trimmed(src)
    IN  (/\ op = "from_str"
         /\ t # <<>>
         /\ Head(t) \in {"[", "{"}
         /\ (CompositeFails(t) \/ NestedFails(t)))
        => (err = "NoMatch" /\ rest = t /\ val = None)

C8_Witness ==
    /\ op = "from_str"
    /\ Trimmed(src) # <<>>
    /\ Trimmed(src) # src
    /\ Head(Trimmed(src)) = "["
    /\ NestedFails(Trimmed(src))
    /\ parse_value(Drop(Trimmed(src), 1)).val # None
    /\ err = "NoMatch"
    /\ rest = Trimmed(src)

----------------------------------------------------------------------------
(* C9: strings                                                             *)

\* the quotes after the first character that do not follow a backslash
Closers(s) == {j \in 2..Len(s) : s[j] = QUOTE /\ s[j - 1] # BACKSLASH}

FirstCloser(s) == CHOOSE j \in Closers(s) : \A k \in Closers(s) : j <= k

\* C9: parse_string(S) yields a value exactly when S starts with '"' and has
\* a later '"' not directly after a backslash; the first such quote closes
\* the string, the String is the text between the two quotes kept verbatim,
\* the cursor starts after the closing quote; otherwise no value and S back.
C9_StringVerbatimToFirstCloser ==
    op = "parse_string" =>
        IF src # <<>> /\ Head(src) = QUOTE /\ Closers(src) # {}
        THEN /\ val = String(SubSeq(src, 2, FirstCloser(src) - 1))
             /\ rest = Drop(src, FirstCloser(src))
        ELSE val = None /\ rest = src

C9_Witness ==
    /\ op = "parse_string"
    /\ val.kind = "String"
    /\ \E i \in 1..(Len(val.s) - 1) : val.s[i] = BACKSLASH /\ val.s[i + 1] = QUOTE
    /\ rest # <<>>

----------------------------------------------------------------------------
(* C10: progress                                                           *)

Suffixes(s) == {Drop(s, n) : n \in 0..Len(s)}

\* C10: a parser that yields a value returns a strictly shorter suffix of its
\* cursor, and from every cursor position of the input a pass of the element
\* loop, of the field loop or of the escaped-quote loop that goes round again
\* has consumed at least one character, as has every value parsed there.
C10_EveryPassConsumes ==
    /\ (op \in ParserOps /\ val # None)
       => (Len(rest) < Len(src) /\ IsSuffix(rest, src))
    /\ op = "from_str" =>
          \A c \in Suffixes(src) :
              LET v == parse_value(c)
                  a == array_iter(c)
                  o == object_iter(c)
                  q == string_iter(c, <<BACKSLASH>>)
              IN  /\ v.val # None => Len(v.rest) < Len(c)
                  /\ ~a.stop => Len(a.rest) < Len(c)
                  /\ ~o.stop => Len(o.rest) < Len(c)
                  /\ q.ok => Len(q.rest) < Len(c)

C10_Witness ==
    /\ op = "parse_array"
    /\ val # None
    /\ ~array_iter(Tail(src)).stop
    /\ \E c \in Suffixes(src) : c # <<>> /\ ~object_iter(c).stop
    /\ Len(rest) < Len(src)

====
